---- MODULE Spec2Model ----
(***************************************************************************)
(* Column wrapper of the ClickHouse driver (src/types/column/mod.rs):      *)
(* a named, shared-ownership handle (Arc) to a column storage, with        *)
(* copy-on-write push, slice and concat views, casting adapters, value     *)
(* equality and the wire codec.                                            *)
(***************************************************************************)
EXTENDS Integers, Sequences, FiniteSets, TLC

\* ------------------------------------------------------------------ bounds
\* Column slots (live Column values) of the model.
MaxColumns == 3
\* Storage instances (Arc allocations) that may be alive at once.
MaxStorages == 3
\* Rows of a storage that is loaded or pushed into.
MaxLen == 2
\* Columns handed to one Column::concat call.
MaxParts == 2
\* Operations of one behaviour of the copy-on-write specification.
MaxOps == 4
\* Operations of one behaviour of the view specification.
MaxViewOps == 3

VARIABLES
    columns,   \* slot -> Column {name, data, _marker}
    storage,   \* handle -> the storage instance an Arc points to
    last,      \* the last operation, its arguments and what it returned
    ops,       \* operations performed so far
    wire,      \* the bytes written by Column::write, not yet read
    threads    \* slot -> where the push call of the thread owning the Column is

vars == <<columns, storage, last, ops, wire, threads>>

Slots == 1..MaxColumns
Handles == 1..MaxStorages

\* ------------------------------------------------------------- SqlType
S_UInt8 == <<"UInt8">>
S_String == <<"String">>
S_FixedString(n) == <<"FixedString", n>>
S_Decimal(p, s) == <<"Decimal", p, s>>
S_Nullable(t) == <<"Nullable", t>>
S_Array(t) == <<"Array", t>>

\* ------------------------------------------------------------- storage
\* A name is a string: the sequence of its characters.
NoColumn == [name |-> <<>>, data |-> 0, K |-> "none"]

Free ==
    [kind |-> "free", sql_type |-> <<>>, rows |-> <<>>, column |-> NoColumn,
     data |-> 0, start |-> 0, end |-> 0, chunks |-> <<>>,
     str_len |-> 0, precision |-> 0, scale |-> 0, nobits |-> 0]

\* A concrete storage variant: declared type and rows.
Data(ty, rows) == [Free EXCEPT !.kind = "Data", !.sql_type = ty, !.rows = rows]

\* ChunkColumnData::new(data, range)
ChunkColumnData(data, start, end) ==
    [Free EXCEPT !.kind = "ChunkColumnData", !.data = data, !.start = start, !.end = end]

\* ConcatColumnData::concat(chunks)
ConcatColumnData(chunks) ==
    [Free EXCEPT !.kind = "ConcatColumnData", !.chunks = chunks]

IsAdapter(obj) ==
    obj.kind \in {"FixedStringAdapter", "NullableFixedStringAdapter", "StringAdapter",
                  "DecimalAdapter", "NullableDecimalAdapter"}

\* The Arc handles a storage instance holds, one entry per handle held.
Refs(obj) ==
    CASE obj.kind = "ChunkColumnData" -> <<obj.data>>
      [] obj.kind = "ConcatColumnData" -> obj.chunks
      [] IsAdapter(obj) -> <<obj.column.data>>
      [] OTHER -> <<>>

Occurrences(seq, h) == Cardinality({i \in DOMAIN seq : seq[i] = h})

RECURSIVE HeldByStorages(_, _, _)
HeldByStorages(st, h, n) ==
    IF n = 0 THEN 0
    ELSE Occurrences(Refs(st[n]), h) + HeldByStorages(st, h, n - 1)

\* Arc::strong_count of the allocation h: the Columns and the views and
\* adapters that hold a handle to it.
strong_count(st, cols, h) ==
    Cardinality({c \in DOMAIN cols : cols[c].data = h})
        + HeldByStorages(st, h, Len(st))

RECURSIVE Reach(_, _)
Reach(st, set) ==
    LET next == set \cup {h \in DOMAIN st : \E o \in set : Occurrences(Refs(st[o]), h) > 0}
    IN  IF next = set THEN set ELSE Reach(st, next)

\* Dropping the last Arc of an allocation destroys the storage instance.
Release(st, cols) ==
    LET live == Reach(st, {cols[c].data : c \in DOMAIN cols} \ {0})
    IN  [h \in DOMAIN st |-> IF h \in live THEN st[h] ELSE Free]

FreeHandles(st) == {h \in DOMAIN st : st[h].kind = "free"}
NewHandle(st) == CHOOSE h \in FreeHandles(st) : \A g \in FreeHandles(st) : h <= g
FreeSlots(cols) == {c \in DOMAIN cols : cols[c] = NoColumn}
NewSlot(cols) == CHOOSE c \in FreeSlots(cols) : \A d \in FreeSlots(cols) : c <= d
Alive(cols) == {c \in DOMAIN cols : cols[c] # NoColumn}

\* ------------------------------------------------- storage capability
RECURSIVE Pow10(_)
Pow10(n) == IF n = 0 THEN 1 ELSE 10 * Pow10(n - 1)

\* Signed integer division of Rust: truncates toward zero.
TruncDiv(a, b) == IF a >= 0 THEN a \div b ELSE -((-a) \div b)

RECURSIVE PadZero(_, _)
PadZero(bytes, n) == IF Len(bytes) >= n THEN bytes ELSE PadZero(Append(bytes, 0), n)

\* String -> FixedString(n): exactly n bytes, truncated or padded with zero bytes.
FixedBytes(bytes, n) == IF Len(bytes) >= n THEN SubSeq(bytes, 1, n) ELSE PadZero(bytes, n)

\* Decimal(p1,s1) -> Decimal(p2,s2): the stored integer rescaled by 10^|s2-s1|.
Rescale(v, precision, scale) ==
    LET u == v[1]
        s1 == v[3]
    IN  <<IF scale >= s1 THEN u * Pow10(scale - s1) ELSE TruncDiv(u, Pow10(s1 - scale)),
          precision, scale>>

Null == <<"Null">>
Some(v) == <<"Some", v>>

RECURSIVE data_sql_type(_, _)
data_sql_type(st, h) ==
    LET obj == st[h]
    IN  CASE obj.kind = "Data" -> obj.sql_type
          [] obj.kind = "ChunkColumnData" -> data_sql_type(st, obj.data)
          [] obj.kind = "ConcatColumnData" -> data_sql_type(st, obj.chunks[1])
          [] obj.kind = "FixedStringAdapter" -> S_FixedString(obj.str_len)
          [] obj.kind = "NullableFixedStringAdapter" -> S_Nullable(S_FixedString(obj.str_len))
          [] obj.kind = "StringAdapter" -> S_String
          [] obj.kind = "DecimalAdapter" -> S_Decimal(obj.precision, obj.scale)
          [] obj.kind = "NullableDecimalAdapter" ->
                S_Nullable(S_Decimal(obj.precision, obj.scale))

RECURSIVE data_len(_, _)
RECURSIVE SumLen(_, _)
SumLen(st, chunks) ==
    IF chunks = <<>> THEN 0 ELSE data_len(st, Head(chunks)) + SumLen(st, Tail(chunks))

data_len(st, h) ==
    LET obj == st[h]
    IN  CASE obj.kind = "Data" -> Len(obj.rows)
          [] obj.kind = "ChunkColumnData" -> obj.end - obj.start
          [] obj.kind = "ConcatColumnData" -> SumLen(st, obj.chunks)
          [] OTHER -> data_len(st, obj.column.data)

RECURSIVE data_at(_, _, _)
RECURSIVE ConcatAt(_, _, _)
\* The part whose cumulative-length bracket contains index, and the local index.
ConcatAt(st, chunks, index) ==
    IF index < data_len(st, Head(chunks))
    THEN data_at(st, Head(chunks), index)
    ELSE ConcatAt(st, Tail(chunks), index - data_len(st, Head(chunks)))

data_at(st, h, index) ==
    LET obj == st[h]
    IN  CASE obj.kind = "Data" -> obj.rows[index + 1]
          [] obj.kind = "ChunkColumnData" -> data_at(st, obj.data, obj.start + index)
          [] obj.kind = "ConcatColumnData" -> ConcatAt(st, obj.chunks, index)
          [] obj.kind = "FixedStringAdapter" ->
                FixedBytes(data_at(st, obj.column.data, index), obj.str_len)
          [] obj.kind = "NullableFixedStringAdapter" ->
                LET v == data_at(st, obj.column.data, index)
                IN  IF v = Null THEN Null ELSE Some(FixedBytes(v[2], obj.str_len))
          [] obj.kind = "StringAdapter" -> data_at(st, obj.column.data, index)
          [] obj.kind = "DecimalAdapter" ->
                Rescale(data_at(st, obj.column.data, index), obj.precision, obj.scale)
          [] obj.kind = "NullableDecimalAdapter" ->
                LET v == data_at(st, obj.column.data, index)
                IN  IF v = Null THEN Null ELSE Some(Rescale(v[2], obj.precision, obj.scale))

\* ColumnData::push of a concrete storage variant: appends one row.
data_push(obj, value) == [obj EXCEPT !.rows = Append(@, value)]

\* ColumnData::clone_instance of a concrete storage variant: an independent
\* copy with identical content.
clone_instance(obj) == Data(obj.sql_type, obj.rows)

\* ------------------------------------------------------------- Column
name(col) == col.name
sql_type(st, col) == data_sql_type(st, col.data)
len(st, col) == data_len(st, col.data)
at(st, col, index) == data_at(st, col.data, index)

\* The rows a Column shows: <<at(0), ..., at(len-1)>>.
Rows(st, col) == [i \in 1..len(st, col) |-> at(st, col, i - 1)]

new_column(nm, data, K) == [name |-> nm, data |-> data, K |-> K]

\* impl Clone for Column: the name is copied, the Arc is shared.
clone(col) == new_column(col.name, col.data, col.K)

\* Mutant of slice: the window keeps its length and loses its start.
slice_from_zero(st, col, start, end) ==
    LET n == NewHandle(st)
    IN  [col |-> new_column(col.name, n, "Complex"),
         storage |-> [st EXCEPT ![n] = ChunkColumnData(col.data, 0, end - start)]]

\* Column::slice: a ChunkColumnData over a clone of the Arc, in a new Arc.
slice(st, col, start, end) ==
    LET n == NewHandle(st)
    IN  [col |-> new_column(col.name, n, "Complex"),
         storage |-> [st EXCEPT ![n] = ChunkColumnData(col.data, start, end)]]

\* Mutant of concat: the parts' Arcs are collected in reverse order.
concat_reversed(st, items) ==
    LET n == NewHandle(st)
        chunks == [i \in DOMAIN items |-> items[Len(items) + 1 - i].data]
    IN  [col |-> new_column(name(items[1]), n, "Complex"),
         storage |-> [st EXCEPT ![n] = ConcatColumnData(chunks)]]

\* Column::concat: the parts' Arcs in the order given, the first part's name.
concat(st, items) ==
    LET n == NewHandle(st)
        chunks == [i \in DOMAIN items |-> items[i].data]
    IN  [col |-> new_column(name(items[1]), n, "Complex"),
         storage |-> [st EXCEPT ![n] = ConcatColumnData(chunks)]]

\* Mutant of get_mut: the storage is handed out whoever else holds it.
get_mut_unchecked(st, cols, h) == strong_count(st, cols, h) >= 1

\* Arc::get_mut: the storage when this handle is its only holder.
get_mut(st, cols, h) == strong_count(st, cols, h) = 1

\* Mutant of push: the storage is mutated in place whoever else holds it.
push_in_place(st, cols, c, value) ==
    [storage |-> [st EXCEPT ![cols[c].data] = data_push(@, value)], columns |-> cols]

\* Column::push: loop { get_mut: None -> replace the handle with an Arc of
\* clone_instance(); Some(data) -> data.push(value), break }.
RECURSIVE push(_, _, _, _)
push(st, cols, c, value) ==
    LET h == cols[c].data
    IN  IF get_mut(st, cols, h)
        THEN [storage |-> [st EXCEPT ![h] = data_push(@, value)], columns |-> cols]
        ELSE LET n == NewHandle(st)
                 cols2 == [cols EXCEPT ![c].data = n]
                 st2 == Release([st EXCEPT ![n] = clone_instance(st[h])], cols2)
             IN  push(st2, cols2, c, value)

\* PartialEq for Column: lengths, then declared types, then every at(i).
RECURSIVE EqLoop(_, _, _, _)
EqLoop(st, l, r, i) ==
    IF i >= len(st, l) THEN TRUE
    ELSE IF at(st, l, i) # at(st, r, i) THEN FALSE
    ELSE EqLoop(st, l, r, i + 1)

\* Mutant of eq: the declared types are not compared.
eq_ignoring_type(st, l, r) ==
    IF len(st, l) # len(st, r) THEN FALSE ELSE EqLoop(st, l, r, 0)

eq(st, l, r) ==
    IF len(st, l) # len(st, r) THEN FALSE
    ELSE IF sql_type(st, l) # sql_type(st, r) THEN FALSE
    ELSE EqLoop(st, l, r, 0)

\* ------------------------------------------------------------- cast_to
IsFixedString(t) == t[1] = "FixedString"
IsDecimal(t) == t[1] = "Decimal"
IsNullable(t) == t[1] = "Nullable"

Digit(d) == <<"0", "1", "2", "3", "4", "5", "6", "7", "8", "9">>[d + 1]

RECURSIVE Digits(_)
Digits(n) == IF n < 10 THEN <<Digit(n)>> ELSE Digits(n \div 10) \o <<Digit(n % 10)>>

\* The canonical string form of a type, as its characters.
RECURSIVE to_string(_)
to_string(t) ==
    CASE t[1] = "UInt8" -> <<"U", "I", "n", "t", "8">>
      [] t[1] = "String" -> <<"S", "t", "r", "i", "n", "g">>
      [] t[1] = "FixedString" ->
            <<"F", "i", "x", "e", "d", "S", "t", "r", "i", "n", "g", "(">> \o Digits(t[2])
                \o <<")">>
      [] t[1] = "Decimal" ->
            <<"D", "e", "c", "i", "m", "a", "l", "(">> \o Digits(t[2]) \o <<",">>
                \o Digits(t[3]) \o <<")">>
      [] t[1] = "Nullable" ->
            <<"N", "u", "l", "l", "a", "b", "l", "e", "(">> \o to_string(t[2]) \o <<")">>
      [] t[1] = "Array" -> <<"A", "r", "r", "a", "y", "(">> \o to_string(t[2]) \o <<")">>

\* NoBits::from_precision: the integer width of a decimal, 0 when the
\* precision has none.
from_precision(precision) ==
    IF precision >= 1 /\ precision <= 9 THEN 32
    ELSE IF precision >= 10 /\ precision <= 18 THEN 64
    ELSE IF precision >= 19 /\ precision <= 38 THEN 128
    ELSE 0

Ok(st, col) == [result |-> "Ok", column |-> col, storage |-> st, err |-> <<>>]
Panic(st) == [result |-> "panic", column |-> NoColumn, storage |-> st, err |-> <<>>]

\* Mutant of invalid_type: the two type names change places.
invalid_type_swapped(st, src_type, dst_type) ==
    [result |-> "Err", column |-> NoColumn, storage |-> st,
     err |-> [src |-> to_string(dst_type), dst |-> to_string(src_type)]]

\* Err(Error::FromSql(FromSqlError::InvalidType { src, dst }))
invalid_type(st, src_type, dst_type) ==
    [result |-> "Err", column |-> NoColumn, storage |-> st,
     err |-> [src |-> to_string(src_type), dst |-> to_string(dst_type)]]

\* Ok(Column { name, data: Arc::new(adapter), .. })
wrap(st, self, adapter) ==
    LET n == NewHandle(st)
    IN  Ok([st EXCEPT ![n] = adapter], new_column(name(self), n, self.K))

\* Mutant of arm: the String <- Array(UInt8) arm is missing.
arm_without_string(dst_type, src_type) ==
    CASE IsFixedString(dst_type) /\ src_type = S_String -> "FixedStringAdapter"
      [] IsNullable(dst_type) /\ IsFixedString(dst_type[2]) /\ src_type = S_Nullable(S_String) ->
            "NullableFixedStringAdapter"
      [] IsFixedString(dst_type) /\ src_type = S_Array(S_UInt8) -> "String, FixedString"
      [] IsDecimal(dst_type) /\ IsDecimal(src_type) -> "DecimalAdapter"
      [] IsNullable(dst_type) /\ IsDecimal(dst_type[2]) /\ IsNullable(src_type)
            /\ IsDecimal(src_type[2]) -> "NullableDecimalAdapter"
      [] OTHER -> "InvalidType"

\* match (dst_type, src_type): the arm taken.
arm(dst_type, src_type) ==
    CASE IsFixedString(dst_type) /\ src_type = S_String -> "FixedStringAdapter"
      [] IsNullable(dst_type) /\ IsFixedString(dst_type[2]) /\ src_type = S_Nullable(S_String) ->
            "NullableFixedStringAdapter"
      [] dst_type = S_String /\ src_type = S_Array(S_UInt8) -> "StringAdapter"
      [] IsFixedString(dst_type) /\ src_type = S_Array(S_UInt8) -> "String, FixedString"
      [] IsDecimal(dst_type) /\ IsDecimal(src_type) -> "DecimalAdapter"
      [] IsNullable(dst_type) /\ IsDecimal(dst_type[2]) /\ IsNullable(src_type)
            /\ IsDecimal(src_type[2]) -> "NullableDecimalAdapter"
      [] OTHER -> "InvalidType"

RECURSIVE cast_to(_, _, _)
RECURSIVE cast_match(_, _, _, _)

\* Mutant of cast_to: the equal-type case goes through the match as well.
cast_to_always_match(st, self, dst_type) ==
    cast_match(st, self, dst_type, sql_type(st, self))

\* Column::cast_to: self is returned when it has the type already; else the
\* match on (dst_type, src_type).
cast_to(st, self, dst_type) ==
    LET src_type == sql_type(st, self)
    IN  IF dst_type = src_type THEN Ok(st, self)
        ELSE cast_match(st, self, dst_type, src_type)

cast_match(st, self, dst_type, src_type) ==
    LET a == arm(dst_type, src_type)
    IN  CASE a = "FixedStringAdapter" ->
                wrap(st, self, [Free EXCEPT !.kind = a, !.column = self,
                                            !.str_len = dst_type[2]])
          [] a = "NullableFixedStringAdapter" ->
                wrap(st, self, [Free EXCEPT !.kind = a, !.column = self,
                                            !.str_len = dst_type[2][2]])
          [] a = "StringAdapter" -> wrap(st, self, [Free EXCEPT !.kind = a, !.column = self])
          [] a = "String, FixedString" ->
                LET string_column == cast_to(st, self, S_String)
                IN  IF string_column.result # "Ok" THEN string_column
                    ELSE cast_to(string_column.storage, string_column.column, dst_type)
          [] a = "DecimalAdapter" ->
                LET nobits == from_precision(dst_type[2])
                IN  IF nobits = 0 THEN Panic(st)
                    ELSE wrap(st, self, [Free EXCEPT !.kind = a, !.column = self,
                                                     !.precision = dst_type[2],
                                                     !.scale = dst_type[3],
                                                     !.nobits = nobits])
          [] a = "NullableDecimalAdapter" ->
                LET nobits == from_precision(dst_type[2][2])
                IN  IF nobits = 0 THEN Panic(st)
                    ELSE wrap(st, self, [Free EXCEPT !.kind = a, !.column = self,
                                                     !.precision = dst_type[2][2],
                                                     !.scale = dst_type[2][3],
                                                     !.nobits = nobits])
          [] OTHER -> invalid_type(st, src_type, dst_type)

\* ------------------------------------------------------------- codec
RECURSIVE Join(_)
\* The sequences of a sequence, joined in order.
Join(seqs) == IF seqs = <<>> THEN <<>> ELSE Head(seqs) \o Join(Tail(seqs))

\* An unsigned LEB128 length.
RECURSIVE Varint(_)
Varint(n) == IF n < 128 THEN <<n>> ELSE <<128 + (n % 128)>> \o Varint(n \div 128)

\* w bytes of a signed integer, little-endian, two's complement.
RECURSIVE LEBytes(_, _)
LEBytes(u, w) == IF w = 0 THEN <<>> ELSE <<u % 256>> \o LEBytes(u \div 256, w - 1)

RECURSIVE SignedLE(_)
SignedLE(bytes) ==
    IF Len(bytes) = 1 THEN (IF bytes[1] >= 128 THEN bytes[1] - 256 ELSE bytes[1])
    ELSE bytes[1] + 256 * SignedLE(Tail(bytes))

RECURSIVE UnsignedLE(_)
UnsignedLE(bytes) == IF bytes = <<>> THEN 0 ELSE bytes[1] + 256 * UnsignedLE(Tail(bytes))

\* Encoder::string: the length, then the raw bytes.
WireString(chars) == Varint(Len(chars)) \o chars

Fail == [ok |-> FALSE, value |-> <<>>, rest |-> <<>>]
Got(v, rest) == [ok |-> TRUE, value |-> v, rest |-> rest]
Skip(bytes, n) == SubSeq(bytes, n + 1, Len(bytes))

RECURSIVE ReadVarint(_)
ReadVarint(bytes) ==
    IF bytes = <<>> THEN Fail
    ELSE IF bytes[1] < 128 THEN Got(bytes[1], Tail(bytes))
    ELSE LET more == ReadVarint(Tail(bytes))
         IN  IF more.ok THEN Got((bytes[1] - 128) + 128 * more.value, more.rest) ELSE Fail

\* ReadEx::read_string
ReadString(bytes) ==
    LET n == ReadVarint(bytes)
    IN  IF n.ok /\ Len(n.rest) >= n.value
        THEN Got(SubSeq(n.rest, 1, n.value), Skip(n.rest, n.value))
        ELSE Fail

\* The value a null row of a Nullable(t) column carries on the wire.
RECURSIVE DefaultValue(_)
DefaultValue(t) ==
    CASE t[1] = "UInt8" -> 0
      [] t[1] = "String" -> <<>>
      [] t[1] = "FixedString" -> [i \in 1..t[2] |-> 0]
      [] t[1] = "Decimal" -> <<0, t[2], t[3]>>
      [] t[1] = "Nullable" -> Null
      [] t[1] = "Array" -> <<>>

\* Cumulative element counts of the rows of an Array column.
RECURSIVE Offsets(_, _)
Offsets(values, before) ==
    IF values = <<>> THEN <<>>
    ELSE <<before + Len(Head(values))>> \o Offsets(Tail(values), before + Len(Head(values)))

\* body(t): the wire layout of the rows of a column of type t.
RECURSIVE SaveBody(_, _)
SaveBody(t, values) ==
    CASE t[1] = "UInt8" -> values
      [] t[1] = "String" -> Join([i \in DOMAIN values |-> WireString(values[i])])
      [] t[1] = "FixedString" -> Join(values)
      [] t[1] = "Decimal" ->
            Join([i \in DOMAIN values |-> LEBytes(values[i][1], from_precision(t[2]) \div 8)])
      [] t[1] = "Nullable" ->
            [i \in DOMAIN values |-> IF values[i] = Null THEN 1 ELSE 0]
                \o SaveBody(t[2], [i \in DOMAIN values |->
                                      IF values[i] = Null THEN DefaultValue(t[2])
                                      ELSE values[i][2]])
      [] t[1] = "Array" ->
            LET offsets == Offsets(values, 0)
            IN  Join([i \in DOMAIN offsets |-> LEBytes(offsets[i], 8)])
                    \o SaveBody(t[2], Join(values))

\* ColumnData::save(start, count): rows [start, start + count) in the wire
\* layout of the declared type. A chunk view forwards with its start added; a
\* concat view emits what the materialised concatenation would.
data_save(st, h, start, count) ==
    SaveBody(data_sql_type(st, h), [i \in 1..count |-> data_at(st, h, start + i - 1)])

\* n items of w bytes each.
RECURSIVE LoadFixed(_, _, _)
LoadFixed(bytes, n, w) ==
    IF n = 0 THEN Got(<<>>, bytes)
    ELSE IF Len(bytes) < w THEN Fail
    ELSE LET more == LoadFixed(Skip(bytes, w), n - 1, w)
         IN  IF more.ok THEN Got(<<SubSeq(bytes, 1, w)>> \o more.value, more.rest) ELSE Fail

RECURSIVE LoadStrings(_, _)
LoadStrings(bytes, n) ==
    IF n = 0 THEN Got(<<>>, bytes)
    ELSE LET one == ReadString(bytes)
         IN  IF ~one.ok THEN Fail
             ELSE LET more == LoadStrings(one.rest, n - 1)
                  IN  IF more.ok THEN Got(<<one.value>> \o more.value, more.rest) ELSE Fail

\* The rows of an Array column: the flattened elements cut at the offsets.
SplitAt(flat, offsets) ==
    [i \in DOMAIN offsets |->
        SubSeq(flat, (IF i = 1 THEN 0 ELSE offsets[i - 1]) + 1, offsets[i])]

\* The loader of type t: size rows read off the bytes.
RECURSIVE LoadBody(_, _, _)
LoadBody(t, bytes, size) ==
    CASE t[1] = "UInt8" ->
            IF Len(bytes) < size THEN Fail
            ELSE Got(SubSeq(bytes, 1, size), Skip(bytes, size))
      [] t[1] = "String" -> LoadStrings(bytes, size)
      [] t[1] = "FixedString" -> LoadFixed(bytes, size, t[2])
      [] t[1] = "Decimal" ->
            LET raw == LoadFixed(bytes, size, from_precision(t[2]) \div 8)
            IN  IF ~raw.ok THEN Fail
                ELSE Got([i \in DOMAIN raw.value |-> <<SignedLE(raw.value[i]), t[2], t[3]>>],
                         raw.rest)
      [] t[1] = "Nullable" ->
            IF Len(bytes) < size THEN Fail
            ELSE LET inner == LoadBody(t[2], Skip(bytes, size), size)
                 IN  IF ~inner.ok THEN Fail
                     ELSE Got([i \in 1..size |-> IF bytes[i] = 1 THEN Null
                                                 ELSE Some(inner.value[i])],
                              inner.rest)
      [] t[1] = "Array" ->
            LET raw == LoadFixed(bytes, size, 8)
            IN  IF ~raw.ok THEN Fail
                ELSE LET offsets == [i \in DOMAIN raw.value |-> UnsignedLE(raw.value[i])]
                         total == IF size = 0 THEN 0 ELSE offsets[size]
                         inner == LoadBody(t[2], raw.rest, total)
                     IN  IF ~inner.ok THEN Fail
                         ELSE Got(SplitAt(inner.value, offsets), inner.rest)

IsDigit(ch) == ch \in {"0", "1", "2", "3", "4", "5", "6", "7", "8", "9"}
DigitValue(ch) == CHOOSE d \in 0..9 : Digit(d) = ch

\* The characters before the first bracket or comma.
RECURSIVE IdentLen(_)
IdentLen(chars) ==
    IF chars = <<>> \/ Head(chars) \in {"(", ")", ","} THEN 0 ELSE 1 + IdentLen(Tail(chars))

RECURSIVE ParseDigits(_, _)
ParseDigits(chars, acc) ==
    IF chars # <<>> /\ IsDigit(Head(chars))
    THEN ParseDigits(Tail(chars), 10 * acc + DigitValue(Head(chars)))
    ELSE Got(acc, chars)

\* Int: one digit at least.
ParseInt(chars) ==
    IF chars # <<>> /\ IsDigit(Head(chars)) THEN ParseDigits(chars, 0) ELSE Fail

Expect(chars, ch) == chars # <<>> /\ Head(chars) = ch

\* The type-name grammar: Ident | Ident(Int) | Ident(Int,Int) | Ident(TypeName).
RECURSIVE ParseType(_)
ParseType(chars) ==
    LET n == IdentLen(chars)
        ident == SubSeq(chars, 1, n)
        rest == Skip(chars, n)
        args == IF Expect(rest, "(") THEN Tail(rest) ELSE <<>>
    IN  CASE ident = <<"U", "I", "n", "t", "8">> -> Got(S_UInt8, rest)
          [] ident = <<"S", "t", "r", "i", "n", "g">> -> Got(S_String, rest)
          [] ident = <<"F", "i", "x", "e", "d", "S", "t", "r", "i", "n", "g">> ->
                LET n1 == ParseInt(args)
                IN  IF n1.ok /\ Expect(n1.rest, ")")
                    THEN Got(S_FixedString(n1.value), Tail(n1.rest))
                    ELSE Fail
          [] ident = <<"D", "e", "c", "i", "m", "a", "l">> ->
                LET n1 == ParseInt(args)
                    n2 == IF n1.ok /\ Expect(n1.rest, ",") THEN ParseInt(Tail(n1.rest))
                          ELSE Fail
                IN  IF n2.ok /\ Expect(n2.rest, ")")
                    THEN Got(S_Decimal(n1.value, n2.value), Tail(n2.rest))
                    ELSE Fail
          [] ident \in {<<"N", "u", "l", "l", "a", "b", "l", "e">>, <<"A", "r", "r", "a", "y">>} ->
                LET inner == ParseType(args)
                IN  IF inner.ok /\ Expect(inner.rest, ")")
                    THEN Got(IF Len(ident) = 5 THEN S_Array(inner.value)
                             ELSE S_Nullable(inner.value),
                             Tail(inner.rest))
                    ELSE Fail
          [] OTHER -> Fail

\* ColumnData::load_data: the storage the type name and size rows of bytes
\* describe.
load_data(bytes, type_name, size) ==
    LET t == ParseType(type_name)
    IN  IF ~t.ok \/ t.rest # <<>> THEN Fail
        ELSE LET body == LoadBody(t.value, bytes, size)
             IN  IF body.ok THEN Got(Data(t.value, body.value), body.rest) ELSE Fail

\* Mutant of write: the type name is written before the column name.
write_type_first(st, col) ==
    WireString(to_string(sql_type(st, col))) \o WireString(name(col))
        \o data_save(st, col.data, 0, len(st, col))

\* Column::write: the name, the type's string form, then save(0, len).
write(st, col) ==
    WireString(name(col)) \o WireString(to_string(sql_type(st, col)))
        \o data_save(st, col.data, 0, len(st, col))

\* Column::read: the name, the type name, then load_data for size rows.
read(st, bytes, size, K) ==
    LET name_ == ReadString(bytes)
        type_name == IF name_.ok THEN ReadString(name_.rest) ELSE Fail
        data == IF type_name.ok THEN load_data(type_name.rest, type_name.value, size) ELSE Fail
        n == NewHandle(st)
    IN  IF data.ok
        THEN [result |-> "Ok", column |-> new_column(name_.value, n, K),
              storage |-> [st EXCEPT ![n] = data.value], err |-> <<>>]
        ELSE [result |-> "Err", column |-> NoColumn, storage |-> st, err |-> <<>>]

\* ------------------------------------------------- the column operations
Names == {<<"a">>, <<"b">>}
\* One-byte strings: a row value of a String and of a FixedString(1) column.
SampleValues == {<<1>>, <<2>>}
LoadTypes == {S_String, S_FixedString(1)}

RECURSIVE SeqsUpTo(_, _)
SeqsUpTo(S, n) ==
    IF n = 0 THEN {<<>>}
    ELSE LET shorter == SeqsUpTo(S, n - 1)
         IN  shorter \cup {Append(q, x) : q \in {r \in shorter : Len(r) = n - 1}, x \in S}

\* Rows of distinct content: the one-byte strings <<1>>, <<2>>, ...
DistinctRows(n) == [i \in 1..n |-> <<i>>]

NoOp ==
    [op |-> "init", col |-> 0, arg |-> <<>>, res |-> 0, flag |-> FALSE,
     self |-> NoColumn, src |-> <<>>, rows |-> <<>>, err |-> <<>>]

NoWire == [bytes |-> <<>>, rows |-> 0, from |-> 0]
NoCall ==
    [pc |-> "idle", value |-> <<>>, from |-> 0, cloned |-> Free, split |-> FALSE,
     pushes |-> 0]

Init ==
    /\ columns = [c \in Slots |-> NoColumn]
    /\ storage = [h \in Handles |-> Free]
    /\ last = NoOp
    /\ ops = 0
    /\ wire = NoWire
    /\ threads = [c \in Slots |-> NoCall]

\* A freshly loaded or built Simple column over its own storage instance.
Load(nm, ty, rows) ==
    /\ FreeSlots(columns) # {} /\ FreeHandles(storage) # {}
    /\ LET n == NewHandle(storage)
           c == NewSlot(columns)
       IN  /\ storage' = [storage EXCEPT ![n] = Data(ty, rows)]
           /\ columns' = [columns EXCEPT ![c] = new_column(nm, n, "Simple")]
           /\ last' = [NoOp EXCEPT !.op = "load", !.res = c]
    /\ UNCHANGED <<wire, threads>>

Clone(c) ==
    /\ c \in Alive(columns) /\ FreeSlots(columns) # {}
    /\ LET d == NewSlot(columns)
       IN  /\ columns' = [columns EXCEPT ![d] = clone(columns[c])]
           /\ last' = [NoOp EXCEPT !.op = "clone", !.col = c, !.res = d]
    /\ UNCHANGED storage
    /\ UNCHANGED <<wire, threads>>

Slice(c, start, end) ==
    /\ c \in Alive(columns) /\ FreeSlots(columns) # {} /\ FreeHandles(storage) # {}
    /\ start <= end /\ end <= len(storage, columns[c])
    /\ LET r == slice(storage, columns[c], start, end)
           d == NewSlot(columns)
       IN  /\ storage' = r.storage
           /\ columns' = [columns EXCEPT ![d] = r.col]
           /\ last' = [NoOp EXCEPT !.op = "slice", !.col = c, !.arg = <<start, end>>,
                                   !.res = d]
    /\ UNCHANGED <<wire, threads>>

\* The parts are Simple columns of one declared type (one logical column
\* received in several blocks).
Concat(items) ==
    /\ items # <<>>
    /\ \A i \in DOMAIN items :
          /\ items[i] \in Alive(columns)
          /\ columns[items[i]].K = "Simple"
          /\ sql_type(storage, columns[items[i]]) = sql_type(storage, columns[items[1]])
    /\ FreeSlots(columns) # {} /\ FreeHandles(storage) # {}
    /\ LET r == concat(storage, [i \in DOMAIN items |-> columns[items[i]]])
           d == NewSlot(columns)
       IN  /\ storage' = r.storage
           /\ columns' = [columns EXCEPT ![d] = r.col]
           /\ last' = [NoOp EXCEPT !.op = "concat", !.arg = items, !.res = d]
    /\ UNCHANGED <<wire, threads>>

\* push on a column over a concrete storage variant. The split needs a free
\* allocation; a storage holds at most MaxLen rows.
Push(c, value) ==
    /\ c \in Alive(columns)
    /\ storage[columns[c].data].kind = "Data"
    /\ len(storage, columns[c]) < MaxLen
    /\ get_mut(storage, columns, columns[c].data) \/ FreeHandles(storage) # {}
    /\ LET r == push(storage, columns, c, value)
       IN  /\ storage' = r.storage
           /\ columns' = r.columns
           /\ last' = [NoOp EXCEPT !.op = "push", !.col = c, !.arg = value,
                                   !.res = columns[c].data,
                                   !.flag = ~get_mut(storage, columns, columns[c].data)]
    /\ UNCHANGED <<wire, threads>>

Drop(c) ==
    /\ c \in Alive(columns)
    /\ LET cols2 == [columns EXCEPT ![c] = NoColumn]
       IN  /\ columns' = cols2
           /\ storage' = Release(storage, cols2)
    /\ last' = [NoOp EXCEPT !.op = "drop", !.col = c]
    /\ UNCHANGED <<wire, threads>>

Eq(l, r) ==
    /\ l \in Alive(columns) /\ r \in Alive(columns)
    /\ last' = [NoOp EXCEPT !.op = "eq", !.col = l, !.res = r,
                            !.flag = eq(storage, columns[l], columns[r])]
    /\ UNCHANGED <<columns, storage>>
    /\ UNCHANGED <<wire, threads>>

\* One more operation of a behaviour of at most max operations.
Budget(max) == ops < max /\ ops' = ops + 1

\* Copy-on-write: columns of one type are loaded, shared, viewed, pushed
\* into and released.
Next ==
    \/ \E n \in 0..MaxLen : Budget(MaxOps) /\ Load(<<"a">>, S_String, DistinctRows(n))
    \/ \E c \in Slots : Budget(MaxOps) /\ Clone(c)
    \/ \E c \in Slots, start \in 0..MaxLen, end \in 0..MaxLen :
          Budget(MaxOps) /\ Slice(c, start, end)
    \/ \E items \in SeqsUpTo(Slots, MaxParts) : Budget(MaxOps) /\ Concat(items)
    \/ \E c \in Slots, value \in SampleValues : Budget(MaxOps) /\ Push(c, value)
    \/ \E c \in Slots : Budget(MaxOps) /\ Drop(c)

Spec == Init /\ [][Next]_vars

\* Views and equality: columns of two types are loaded, sliced, concatenated
\* and compared.
NextView ==
    \/ \E nm \in Names, ty \in LoadTypes, n \in 0..MaxLen :
          Budget(MaxViewOps) /\ Load(nm, ty, DistinctRows(n))
    \/ \E c \in Slots, start \in 0..MaxLen, end \in 0..MaxLen :
          Budget(MaxViewOps) /\ Slice(c, start, end)
    \/ \E items \in SeqsUpTo(Slots, MaxParts) : Budget(MaxViewOps) /\ Concat(items)
    \/ \E l \in Slots, r \in Slots : Budget(MaxViewOps) /\ Eq(l, r)

SpecView == Init /\ [][NextView]_vars

\* Casting: one column of any sample type is cast, and its casts are cast.
StrLens == {1, 2}
Scales == {2}
DecimalTypes(precisions) == {S_Decimal(p, sc) : p \in precisions, sc \in Scales}
PlainTypes(precisions) ==
    {S_UInt8, S_String, S_Array(S_UInt8), S_Array(S_String)}
        \cup {S_FixedString(n) : n \in StrLens} \cup DecimalTypes(precisions)
WithNullable(types) == types \cup {S_Nullable(t) : t \in types}
\* Types of the columns cast: decimals of a 32-, a 64- and a 128-bit width.
SrcTypes == WithNullable(PlainTypes({9, 18, 38}))
\* Types cast to: the precisions at the edges of the widths, and beyond them.
DstTypes == WithNullable(PlainTypes({1, 9, 10, 18, 19, 38, 39, 255}) \cup {S_Decimal(18, 4)})

\* The k-th sample value of a type.
RECURSIVE SampleValue(_, _)
SampleValue(t, k) ==
    CASE t[1] = "UInt8" -> k
      [] t[1] = "String" -> [i \in 1..(2 * k - 1) |-> i]
      [] t[1] = "FixedString" -> [i \in 1..t[2] |-> k]
      [] t[1] = "Decimal" -> <<IF k = 1 THEN -1250 ELSE 305, t[2], t[3]>>
      [] t[1] = "Nullable" -> IF k = 1 THEN Null ELSE Some(SampleValue(t[2], k))
      [] t[1] = "Array" -> [i \in 1..k |-> SampleValue(t[2], i)]

SampleRows(t, n) == [k \in 1..n |-> SampleValue(t, k)]

InitCast ==
    /\ \E nm \in Names, t \in SrcTypes :
          /\ columns = [c \in Slots |-> IF c = 1 THEN new_column(nm, 1, "Simple") ELSE NoColumn]
          /\ storage = [h \in Handles |-> IF h = 1 THEN Data(t, SampleRows(t, MaxLen)) ELSE Free]
    /\ last = NoOp
    /\ ops = 0
    /\ wire = NoWire
    /\ threads = [c \in Slots |-> NoCall]

\* The allocations a cast makes: one per adapter it wraps.
Allocations(dst_type, src_type) ==
    IF dst_type = src_type THEN 0
    ELSE CASE arm(dst_type, src_type) = "InvalidType" -> 0
           [] arm(dst_type, src_type) = "String, FixedString" -> 2
           [] OTHER -> 1

\* cast_to consumes self: the slot holds the column returned, or nothing
\* after an error or a panic.
CastTo(c, dst_type) ==
    /\ c \in Alive(columns)
    /\ Cardinality(FreeHandles(storage)) >= Allocations(dst_type, sql_type(storage, columns[c]))
    /\ LET r == cast_to(storage, columns[c], dst_type)
           cols2 == [columns EXCEPT ![c] = r.column]
       IN  /\ columns' = cols2
           /\ storage' = Release(r.storage, cols2)
           /\ last' = [NoOp EXCEPT !.op = "cast_to", !.col = c, !.arg = dst_type,
                                   !.res = r.result, !.self = columns[c],
                                   !.src = sql_type(storage, columns[c]),
                                   !.rows = Rows(storage, columns[c]), !.err = r.err]
    /\ UNCHANGED <<ops, wire, threads>>

NextCast == \E c \in Slots, dst_type \in DstTypes : CastTo(c, dst_type)

SpecCast == InitCast /\ [][NextCast]_vars

\* The codec: one column of any sample type and of 0..MaxLen rows is loaded
\* and sliced once, and it, its slice and the columns read are written and
\* read back.
CodecTypes ==
    SrcTypes \cup {S_Array(S_Array(S_UInt8)), S_Array(S_Nullable(S_String)),
                   S_Array(S_FixedString(2)), S_Nullable(S_Array(S_Decimal(18, 4)))}

InitCodec ==
    /\ \E nm \in Names, t \in CodecTypes, n \in 0..MaxLen :
          /\ columns = [c \in Slots |-> IF c = 1 THEN new_column(nm, 1, "Simple") ELSE NoColumn]
          /\ storage = [h \in Handles |-> IF h = 1 THEN Data(t, SampleRows(t, n)) ELSE Free]
    /\ last = NoOp
    /\ ops = 0
    /\ wire = NoWire
    /\ threads = [c \in Slots |-> NoCall]

Write(c) ==
    /\ c \in Alive(columns)
    /\ wire' = [bytes |-> write(storage, columns[c]), rows |-> len(storage, columns[c]),
                from |-> c]
    /\ last' = [NoOp EXCEPT !.op = "write", !.col = c]
    /\ UNCHANGED <<columns, storage, ops, threads>>

\* The bytes written are read as a column of the row count the block states.
Read ==
    /\ wire.from # 0
    /\ FreeSlots(columns) # {} /\ FreeHandles(storage) # {}
    /\ LET r == read(storage, wire.bytes, wire.rows, "Simple")
           d == NewSlot(columns)
       IN  /\ storage' = r.storage
           /\ columns' = [columns EXCEPT ![d] = r.column]
           /\ last' = [NoOp EXCEPT !.op = "read", !.col = wire.from, !.arg = wire.rows,
                                   !.res = d, !.flag = (r.result = "Ok")]
    /\ wire' = NoWire
    /\ UNCHANGED <<ops, threads>>

NextCodec ==
    \/ \E start \in 0..MaxLen, end \in 0..MaxLen :
          Alive(columns) = {1} /\ Slice(1, start, end) /\ UNCHANGED ops
    \/ \E c \in Slots : Write(c)
    \/ Read

SpecCodec == InitCodec /\ [][NextCodec]_vars

\* Concurrent pushes: the Columns of slots 1..MaxStorages-1 start out as
\* clones sharing one storage handle, each owned by a thread of its own that
\* calls push, one step of the loop at a time, with a value of its own.
Sharers == 1..(MaxStorages - 1)

InitPush ==
    /\ \E n \in 0..(MaxLen - 1) :
          storage = [h \in Handles |-> IF h = 1 THEN Data(S_String, DistinctRows(n)) ELSE Free]
    /\ columns = [c \in Slots |-> IF c \in Sharers THEN new_column(<<"a">>, 1, "Simple")
                                  ELSE NoColumn]
    /\ last = NoOp
    /\ ops = 0
    /\ wire = NoWire
    /\ threads = [c \in Slots |-> NoCall]

\* push(&mut self, value) is entered.
Call(c, value) ==
    /\ c \in Alive(columns) /\ threads[c].pc = "idle"
    /\ len(storage, columns[c]) < MaxLen
    /\ threads' = [threads EXCEPT ![c] = [@ EXCEPT !.pc = "get_mut", !.value = value,
                                                   !.from = columns[c].data,
                                                   !.split = FALSE]]
    /\ UNCHANGED <<columns, storage, last, ops, wire>>

\* match Arc::get_mut(&mut self.data)
GetMut(c) ==
    /\ threads[c].pc = "get_mut"
    /\ threads' = [threads EXCEPT ![c].pc =
                      IF get_mut(storage, columns, columns[c].data) THEN "push"
                      ELSE "clone_instance"]
    /\ UNCHANGED <<columns, storage, last, ops, wire>>

\* None => self.data.clone_instance(): the shared storage is read.
CloneInstance(c) ==
    /\ threads[c].pc = "clone_instance"
    /\ threads' = [threads EXCEPT ![c] = [@ EXCEPT !.pc = "assign", !.split = TRUE,
                                                   !.cloned = clone_instance(
                                                       storage[columns[c].data])]]
    /\ UNCHANGED <<columns, storage, last, ops, wire>>

\* self.data = Arc::from(..): the clone gets its own Arc, the handle held
\* before is dropped, and the loop goes round.
Assign(c) ==
    /\ threads[c].pc = "assign"
    /\ FreeHandles(storage) # {}
    /\ LET n == NewHandle(storage)
           cols2 == [columns EXCEPT ![c].data = n]
       IN  /\ columns' = cols2
           /\ storage' = Release([storage EXCEPT ![n] = threads[c].cloned], cols2)
    /\ threads' = [threads EXCEPT ![c] = [@ EXCEPT !.pc = "get_mut", !.cloned = Free]]
    /\ UNCHANGED <<last, ops, wire>>

\* Some(data) => data.push(value); break
PushData(c) ==
    /\ threads[c].pc = "push"
    /\ storage' = [storage EXCEPT ![columns[c].data] = data_push(@, threads[c].value)]
    /\ threads' = [threads EXCEPT ![c] = [@ EXCEPT !.pc = "idle", !.pushes = @ + 1]]
    /\ UNCHANGED <<columns, last, ops, wire>>

\* The steps of a push call under way.
Running(c) == GetMut(c) \/ CloneInstance(c) \/ Assign(c) \/ PushData(c)

NextPush ==
    \/ \E c \in Slots : Call(c, <<c>>)
    \/ \E c \in Slots : GetMut(c)
    \/ \E c \in Slots : CloneInstance(c)
    \/ \E c \in Slots : Assign(c)
    \/ \E c \in Slots : PushData(c)

\* A thread inside push keeps running: the loop never blocks.
SpecPush == InitPush /\ [][NextPush]_vars /\ \A c \in Slots : WF_vars(Running(c))

\* ------------------------------------------------------------- claims
IsView(obj) == obj.kind \in {"ChunkColumnData", "ConcatColumnData"}

\* C1 - Copy-on-write isolation: a push of value onto column a leaves the
\* length and every at(i) of every other column as they were (the clones of
\* a and the slice and concat views over a's storage among them), and a grows
\* by exactly one row: at(old_len) is value and every earlier row is unchanged.
C1_CopyOnWriteIsolation ==
    [][last'.op = "push" =>
        LET a == last'.col
            old_len == len(storage, columns[a])
        IN  /\ \A b \in Alive(columns) \ {a} :
                  /\ columns'[b] = columns[b]
                  /\ len(storage', columns'[b]) = len(storage, columns[b])
                  /\ \A i \in 0..(len(storage, columns[b]) - 1) :
                        at(storage', columns'[b], i) = at(storage, columns[b], i)
            /\ len(storage', columns'[a]) = old_len + 1
            /\ at(storage', columns'[a], old_len) = last'.arg
            /\ \A i \in 0..(old_len - 1) :
                  at(storage', columns'[a], i) = at(storage, columns[a], i)]_vars

\* A push has split the storage while a clone held the same handle and a
\* view was built over it.
C1_Witness ==
    /\ last.op = "push" /\ last.flag
    /\ \E b \in Alive(columns) \ {last.col} : columns[b].data = last.res
    /\ \E b \in Alive(columns) \ {last.col} :
          /\ IsView(storage[columns[b].data])
          /\ Occurrences(Refs(storage[columns[b].data]), last.res) > 0

\* C6 - Column equality is value equality: l == r exactly when the lengths
\* are equal, the declared types are equal and at(i) agrees for every
\* i < len, whatever storage (loaded, chunk view, concat view) backs each side.
C6_ValueEquality ==
    last.op = "eq" =>
        LET l == columns[last.col]
            r == columns[last.res]
        IN  last.flag <=>
                /\ len(storage, l) = len(storage, r)
                /\ sql_type(storage, l) = sql_type(storage, r)
                /\ \A i \in 0..(len(storage, l) - 1) : at(storage, l, i) = at(storage, r, i)

\* A concat view (Complex) was found equal to a loaded column (Simple) with
\* the same non-empty rows.
C6_Witness ==
    /\ last.op = "eq" /\ last.flag
    /\ storage[columns[last.col].data].kind = "ConcatColumnData"
    /\ columns[last.col].K = "Complex"
    /\ storage[columns[last.res].data].kind = "Data"
    /\ columns[last.res].K = "Simple"
    /\ len(storage, columns[last.res]) > 0

\* C7 - Concatenation correctness: the column concat returns has the sum of
\* the parts' lengths as its length and shows the parts' rows in the order
\* given, each row at its part's cumulative offset.
C7_ConcatCorrect ==
    last.op = "concat" =>
        LET parts == [k \in DOMAIN last.arg |-> columns[last.arg[k]]]
            whole == columns[last.res]
            Offset(p) == SumLen(storage, [k \in 1..(p - 1) |-> parts[k].data])
        IN  /\ len(storage, whole) = SumLen(storage, [k \in DOMAIN parts |-> parts[k].data])
            /\ \A p \in DOMAIN parts : \A j \in 0..(len(storage, parts[p]) - 1) :
                  at(storage, whole, Offset(p) + j) = at(storage, parts[p], j)

\* Two non-empty parts of different length were concatenated.
C7_Witness ==
    /\ last.op = "concat" /\ Len(last.arg) >= 2
    /\ len(storage, columns[last.arg[1]]) > 0
    /\ len(storage, columns[last.arg[2]]) > len(storage, columns[last.arg[1]])

\* C8 - Slicing correctness: for start <= end <= c.len(), c.slice(start..end)
\* shows c.at(start + k) at every k < end - start.
C8_SliceCorrect ==
    last.op = "slice" =>
        LET c == columns[last.col]
            d == columns[last.res]
            start == last.arg[1]
            end == last.arg[2]
        IN  \A k \in 0..(end - start - 1) :
                at(storage, d, k) = at(storage, c, start + k)

\* A non-empty window that does not start at row 0 was taken.
C8_Witness ==
    last.op = "slice" /\ last.arg[1] > 0 /\ last.arg[2] > last.arg[1]

\* The (dst, src) pairs section 4.3 of the specification lists.
Listed(dst_type, src_type) ==
    \/ IsFixedString(dst_type) /\ src_type = S_String
    \/ dst_type = S_String /\ src_type = S_Array(S_UInt8)
    \/ dst_type = S_Array(S_UInt8) /\ src_type = S_String
    \/ IsDecimal(dst_type) /\ IsDecimal(src_type)
    \/ IsNullable(dst_type) /\ IsFixedString(dst_type[2]) /\ src_type = S_Nullable(S_String)
    \/ dst_type = S_Nullable(S_String) /\ src_type = S_Nullable(S_Array(S_UInt8))
    \/ dst_type = S_Nullable(S_Array(S_UInt8)) /\ src_type = S_Nullable(S_String)
    \/ IsNullable(dst_type) /\ IsDecimal(dst_type[2]) /\ IsNullable(src_type)
          /\ IsDecimal(src_type[2])

\* The listed pairs without String -> Array(UInt8) and the two Nullable
\* variants between Array(UInt8) and String.
ListedAndCast(dst_type, src_type) ==
    /\ Listed(dst_type, src_type)
    /\ ~(dst_type = S_Array(S_UInt8) /\ src_type = S_String)
    /\ ~(dst_type = S_Nullable(S_String) /\ src_type = S_Nullable(S_Array(S_UInt8)))
    /\ ~(dst_type = S_Nullable(S_Array(S_UInt8)) /\ src_type = S_Nullable(S_String))

\* A Decimal or Nullable(Decimal) destination whose precision has no width.
NoWidth(dst_type) ==
    \/ IsDecimal(dst_type) /\ ~(dst_type[2] \in 1..38)
    \/ IsNullable(dst_type) /\ IsDecimal(dst_type[2]) /\ ~(dst_type[2][2] \in 1..38)

\* C2 as stated - Cast totality: cast_to returns a column for every
\* (dst, src) pair section 4.3 lists.
C2_CastTotality_AsStated ==
    last.op = "cast_to" /\ last.arg # last.src /\ Listed(last.arg, last.src)
        => last.res = "Ok"

\* C2 - Cast totality, amended: cast_to returns a column of the requested
\* type and the same name for String -> FixedString(n), Array(UInt8) -> String,
\* Decimal -> Decimal, Nullable(String) -> Nullable(FixedString(n)) and
\* Nullable(Decimal) -> Nullable(Decimal), unless the destination is a decimal
\* whose precision has no width, where the call panics.
C2_CastTotality ==
    last.op = "cast_to" /\ last.arg # last.src /\ ListedAndCast(last.arg, last.src)
        => IF NoWidth(last.arg) THEN last.res = "panic"
           ELSE /\ last.res = "Ok"
                /\ sql_type(storage, columns[last.col]) = last.arg
                /\ name(columns[last.col]) = name(last.self)

\* An Array(UInt8) column was cast to String.
C2_Witness ==
    /\ last.op = "cast_to" /\ last.res = "Ok"
    /\ last.arg = S_String /\ last.src = S_Array(S_UInt8)
    /\ storage[columns[last.col].data].kind = "StringAdapter"

\* C3 as stated - Cast negativity: for every pair with dst # src that
\* section 4.3 does not list, cast_to returns no column and the invalid-type
\* error naming the column's type as src and the requested type as dst.
C3_CastNegativity_AsStated ==
    last.op = "cast_to" /\ last.arg # last.src /\ ~Listed(last.arg, last.src)
        => /\ last.res = "Err"
           /\ last.err = [src |-> to_string(last.src), dst |-> to_string(last.arg)]
           /\ columns[last.col] = NoColumn

\* C3 - Cast negativity, amended: the same for every unlisted pair other
\* than Array(UInt8) -> FixedString(n), which is cast through String.
C3_CastNegativity ==
    last.op = "cast_to" /\ last.arg # last.src /\ ~Listed(last.arg, last.src)
        /\ ~(IsFixedString(last.arg) /\ last.src = S_Array(S_UInt8))
        => /\ last.res = "Err"
           /\ last.err = [src |-> to_string(last.src), dst |-> to_string(last.arg)]
           /\ columns[last.col] = NoColumn

\* A Nullable(FixedString(2)) column was refused the cast to Decimal(9,2).
C3_Witness ==
    /\ last.op = "cast_to" /\ last.res = "Err"
    /\ last.src = S_Nullable(S_FixedString(2)) /\ last.arg = S_Decimal(9, 2)

\* C4 - The invalid-type error is the only way cast_to can fail: every
\* cast_to returns a column or the invalid-type error, for Decimal and
\* Nullable(Decimal) destinations of any precision too.
C4_NoOtherFailure ==
    last.op = "cast_to" => last.res \in {"Ok", "Err"}

\* C5 - Casting to the column's own type is a no-op: cast_to(sql_type())
\* returns the column it was given, with the same name and the same storage
\* handle (no adapter around it), the same length and the same at(i).
C5_CastToOwnType ==
    last.op = "cast_to" /\ last.arg = last.src
        => /\ last.res = "Ok"
           /\ columns[last.col] = last.self
           /\ len(storage, columns[last.col]) = Len(last.rows)
           /\ \A i \in 0..(Len(last.rows) - 1) : at(storage, columns[last.col], i) = last.rows[i + 1]
           /\ sql_type(storage, columns[last.col]) = last.src

\* A column was cast to the type it has.
C5_Witness ==
    /\ last.op = "cast_to" /\ last.arg = last.src /\ last.res = "Ok"
    /\ Len(last.rows) > 0

\* C9 - Round trip: a column written with write and read back with read for
\* the same row count is read without error, has the same name and is equal
\* to the original: the same length, the same sql_type, the same at(i).
C9_RoundTrip ==
    last.op = "read" /\ last.arg = len(storage, columns[last.col])
        => /\ last.flag
           /\ LET c == columns[last.col]
                  d == columns[last.res]
              IN  /\ name(d) = name(c)
                  /\ eq(storage, d, c)
                  /\ len(storage, d) = len(storage, c)
                  /\ sql_type(storage, d) = sql_type(storage, c)
                  /\ Rows(storage, d) = Rows(storage, c)

\* Two rows of a Nullable(Array(Decimal(18,4))) column were read back.
C9_Witness ==
    /\ last.op = "read" /\ last.flag /\ last.arg = 2
    /\ len(storage, columns[last.col]) = 2
    /\ sql_type(storage, columns[last.res]) = S_Nullable(S_Array(S_Decimal(18, 4)))

\* A storage instance keeps its handle and its kind and shows other rows.
Mutated(h) ==
    /\ storage[h].kind = "Data" /\ storage'[h].kind = "Data"
    /\ storage'[h].rows # storage[h].rows

\* C10 - Under every interleaving of the push calls of Columns that start
\* out sharing one storage handle: no storage instance is mutated while it
\* has more than one holder; a push whose Column is the sole holder at
\* get_mut mutates in place without clone_instance, and otherwise clones,
\* replaces its handle and mutates the clone; every push call terminates; and
\* after its first push each Column is the sole holder of its storage.
C10_ConcurrentPush ==
    /\ [][\A h \in Handles : Mutated(h) => strong_count(storage, columns, h) = 1]_vars
    /\ [][\A c \in Slots :
            /\ threads[c].pc = "get_mut" /\ threads'[c].pc = "push"
                  => strong_count(storage, columns, columns[c].data) = 1
            /\ threads[c].pc = "get_mut" /\ threads'[c].pc = "clone_instance"
                  => strong_count(storage, columns, columns[c].data) > 1
            /\ threads[c].pc = "push" /\ threads'[c].pc = "idle"
                  => /\ Mutated(columns[c].data)
                     /\ columns'[c] = columns[c]
                     /\ storage'[columns[c].data].rows =
                           Append(storage[columns[c].data].rows, threads[c].value)
                     /\ threads[c].split <=> columns[c].data # threads[c].from]_vars
    /\ [](\A c \in Slots :
            threads[c].pushes > 0 =>
                strong_count(storage, columns, columns[c].data) = 1)
    /\ \A c \in Slots : (threads[c].pc # "idle") ~> (threads[c].pc = "idle")

\* Two Columns that shared one storage have both split it and pushed, and
\* the storage they shared is destroyed.
C10_Witness ==
    \E c \in Slots, d \in Slots :
        /\ c # d
        /\ threads[c].pc = "idle" /\ threads[c].pushes > 0 /\ threads[c].split
        /\ threads[d].pc = "idle" /\ threads[d].pushes > 0 /\ threads[d].split
        /\ columns[c].data # columns[d].data
        /\ storage[threads[c].from].kind = "free"

====
